---- MODULE Spec2Model ----
(***************************************************************************)
(* A model of src/order_book.py: the OrderBook class, its matching         *)
(* routine and its book summary.                                           *)
(*                                                                         *)
(* Order objects live in a heap, `orders`, a sequence of records; an       *)
(* object reference is an index into it.  The two side indices `bids` and  *)
(* `offers` are functions from the prices that are keys of the Python      *)
(* dict to the list of references resting at that price.  Trades are       *)
(* records holding values (ids, price, quantity), as in class Trade.       *)
(*                                                                         *)
(* process_order is modelled statement by statement: ProcessOrder is its   *)
(* body (lines 52-63) up to the call of process_match, whose two loops     *)
(* run one iteration per step (LevelStep, OrderStep, CompactStep) and end  *)
(* with RemainderStep.  `pc` is the position of the single thread of       *)
(* control; while pc # "idle" no other operation can start.                *)
(*                                                                         *)
(* Prices are integers: the code only compares prices and uses them as     *)
(* dict keys.  The timestamp (line 52) is written and never read; it is    *)
(* left out.  Every process_order call is given a fresh Order object.      *)
(***************************************************************************)
EXTENDS Integers, Sequences, FiniteSets, TLC

\* Bounds of the model.
MaxOrders == 3
MaxPrice == 2
MaxQty == 2

VARIABLES
    bids, offers,            \* OrderBook.bids, OrderBook.offers
    orders,                  \* the heap of Order objects
    trades,                  \* OrderBook.trades, the queue's content in put order
    order_id,                \* OrderBook.order_id
    bid_prices, bid_quantity, offer_prices, offer_quantity,  \* the summary fields
    pc,                      \* position of the thread of control
    incoming,                \* process_match: incoming_order (a reference, 0 when idle)
    prices, i,               \* process_match: the sorted keys and the outer loop's index
    orders_at_level, j,      \* process_match: the level's list and the inner loop's index
    pre,                     \* history: bids, offers, orders, trades when the last call began
    submitted,               \* history: the quantity each order was submitted with
    given,                   \* history: the order_id the last call's caller had pre-set
    summarised               \* history: the last operation to complete was book_summary

vars == <<bids, offers, orders, trades, order_id, bid_prices, bid_quantity,
          offer_prices, offer_quantity, pc, incoming, prices, i,
          orders_at_level, j, pre, submitted, given, summarised>>

book == <<bids, offers, orders, trades, order_id>>
summary == <<bid_prices, bid_quantity, offer_prices, offer_quantity>>
locals == <<incoming, prices, i, orders_at_level, j>>
history == <<pre, submitted, given, summarised>>

----------------------------------------------------------------------------
\* Values

\* class Type
Type == {"BUY", "SELL"}

\* float('inf'), the value of min_offer on an empty offer side: above every price.
Inf == MaxPrice + 1

\* The prices and quantities the spec allows a submitter to send (positive).
ValidPrices == 1 .. MaxPrice
ValidQuantities == 1 .. MaxQty

\* What the code accepts: it validates nothing, so also zero and negatives.
AnyPrices == 0 .. MaxPrice
AnyQuantities == (0 - 1) .. MaxQty

\* An order_id pre-set by the caller; 0 stands for None (the demo pre-sets 1..9).
PresetIds == 0 .. 1

\* Order(type, price, quantity, order_id=...) as the caller builds it.
NewOrders(P, Q) ==
    [type : Type, price : P, quantity : Q, order_id : PresetIds]

----------------------------------------------------------------------------
\* Helpers over sets and sequences

Max(S) == CHOOSE x \in S : \A y \in S : y <= x
Min(S) == CHOOSE x \in S : \A y \in S : x <= y

RECURSIVE SortedAsc(_)
SortedAsc(S) ==
    IF S = {} THEN <<>> ELSE <<Min(S)>> \o SortedAsc(S \ {Min(S)})

RECURSIVE SortedDesc(_)
SortedDesc(S) ==
    IF S = {} THEN <<>> ELSE <<Max(S)>> \o SortedDesc(S \ {Max(S)})

\* sorted(keys, reverse=rev)
Sorted(S, rev) == IF rev THEN SortedDesc(S) ELSE SortedAsc(S)

RECURSIVE SumSeq(_)
SumSeq(s) == IF s = <<>> THEN 0 ELSE Head(s) + SumSeq(Tail(s))

RECURSIVE Filter(_, _)
\* [o for o in s if heap[o].quantity > 0]
Filter(s, heap) ==
    IF s = <<>> THEN <<>>
    ELSE IF heap[Head(s)].quantity > 0
         THEN <<Head(s)>> \o Filter(Tail(s), heap)
         ELSE Filter(Tail(s), heap)

\* Mutant of AppendOrder: the level is replaced by a list of the new order alone
AppendOrderOverwrites(levels, price, ref) ==
    [p \in DOMAIN levels \cup {price} |-> IF p = price THEN <<ref>> ELSE levels[p]]

\* Mutant of AppendOrder: the order is inserted at the head of the level
AppendOrderAtHead(levels, price, ref) ==
    [p \in DOMAIN levels \cup {price} |->
        IF p # price THEN levels[p]
        ELSE IF p \in DOMAIN levels THEN <<ref>> \o levels[p] ELSE <<ref>>]

\* levels[price].append(ref) on a defaultdict(list)
AppendOrder(levels, price, ref) ==
    IF price \in DOMAIN levels
    THEN [levels EXCEPT ![price] = Append(@, ref)]
    ELSE [p \in DOMAIN levels \cup {price} |->
            IF p = price THEN <<ref>> ELSE levels[p]]

\* levels.pop(price)
PopLevel(levels, price) == [p \in DOMAIN levels \ {price} |-> levels[p]]

----------------------------------------------------------------------------
\* The code's functions

\* Mutant of new_order_id: the counter is not incremented
new_order_id_stale(cur) == cur

\* OrderBook.new_order_id: the counter after the increment, which is also the id returned
new_order_id(cur) == cur + 1

\* OrderBook.max_bid
max_bid(b) == IF DOMAIN b # {} THEN Max(DOMAIN b) ELSE 0

\* OrderBook.min_offer
min_offer(o) == IF DOMAIN o # {} THEN Min(DOMAIN o) ELSE Inf

\* Mutant of BuyMatches: a BUY at exactly the best offer is not matched
BuyMatchesStrict(price, o) == price > min_offer(o) /\ DOMAIN o # {}

\* process_order, line 55: the test that sends a BUY to process_match
BuyMatches(price, o) == price >= min_offer(o) /\ DOMAIN o # {}

\* Mutant of SellMatches: a SELL at exactly the best bid is not matched
SellMatchesStrict(price, b) == price < max_bid(b) /\ DOMAIN b # {}

\* process_order, line 60: the test that sends a SELL to process_match
SellMatches(price, b) == price <= max_bid(b) /\ DOMAIN b # {}

\* Mutant of SortedPrices: the sort direction is inverted, worst price first
SortedPricesWorstFirst(levels, type) == Sorted(DOMAIN levels, type = "BUY")

\* process_match, line 68: the opposite side's keys, best first
SortedPrices(levels, type) == Sorted(DOMAIN levels, type = "SELL")

\* Mutant of price_doesnt_match: a level at exactly the limit does not match
price_doesnt_match_at_limit(inc, book_price) ==
    IF inc.type = "BUY" THEN inc.price <= book_price ELSE inc.price >= book_price

\* process_match.price_doesnt_match
price_doesnt_match(inc, book_price) ==
    IF inc.type = "BUY" THEN inc.price < book_price ELSE inc.price > book_price

\* Mutant of LevelLoopBreaks: the loop goes on past the first price that does not match
LevelLoopBreaksOnQuantityOnly(inc, price) == inc.quantity = 0

\* process_match, line 77: the test that leaves the loop over the price levels
LevelLoopBreaks(inc, price) == inc.quantity = 0 \/ price_doesnt_match(inc, price)

\* Mutant of OrderLoopBreaks: the loop goes on after the incoming order is filled
OrderLoopNeverBreaks(inc) == FALSE

\* process_match, lines 81-82: the test that leaves the loop over the level's orders
OrderLoopBreaks(inc) == inc.quantity = 0

\* Trade.__init__
Trade(incoming_type, incoming_price, trade_quantity, incoming_order_id, book_order_id) ==
    [type |-> incoming_type, price |-> incoming_price, quantity |-> trade_quantity,
     incoming_order_id |-> incoming_order_id, book_order_id |-> book_order_id]

\* Mutant of execute_match: the trade carries the incoming order's own price
execute_match_at_limit(inc, bk) ==
    LET trade_quantity == IF inc.quantity <= bk.quantity THEN inc.quantity ELSE bk.quantity
    IN  Trade(inc.type, inc.price, trade_quantity, inc.order_id, bk.order_id)

\* Mutant of execute_match: the trade is for the larger of the two quantities
execute_match_max(inc, bk) ==
    LET trade_quantity == IF inc.quantity >= bk.quantity THEN inc.quantity ELSE bk.quantity
    IN  Trade(inc.type, bk.price, trade_quantity, inc.order_id, bk.order_id)

\* Mutant of execute_match: the two order ids are passed in the wrong order
execute_match_ids_swapped(inc, bk) ==
    LET trade_quantity == IF inc.quantity <= bk.quantity THEN inc.quantity ELSE bk.quantity
    IN  Trade(inc.type, bk.price, trade_quantity, bk.order_id, inc.order_id)

\* OrderBook.execute_match
execute_match(inc, bk) ==
    LET trade_quantity == IF inc.quantity <= bk.quantity THEN inc.quantity ELSE bk.quantity
    IN  Trade(inc.type, bk.price, trade_quantity, inc.order_id, bk.order_id)

\* Mutant of Reduced: the operands of the subtraction are swapped
ReducedSwapped(q, traded) == IF traded - q > 0 THEN traded - q ELSE 0

\* max(0, q - traded), lines 84 and 85
Reduced(q, traded) == IF q - traded > 0 THEN q - traded ELSE 0

\* Mutant of Compacted: the emptied level is not popped
CompactedNotPopped(levels, price, level, heap) ==
    [levels EXCEPT ![price] = Filter(level, heap)]

\* Mutant of Compacted: the level keeps its filled orders
CompactedUnfiltered(levels, price, level, heap) ==
    IF Len(level) = 0 THEN PopLevel(levels, price) ELSE [levels EXCEPT ![price] = level]

\* process_match, lines 87-89: the level without its filled orders, popped when empty
Compacted(levels, price, level, heap) ==
    LET kept == Filter(level, heap)
    IN  IF Len(kept) = 0
        THEN PopLevel(levels, price)
        ELSE [levels EXCEPT ![price] = kept]

\* Mutant of LevelQuantities: the orders at each price are counted, not their quantities
LevelQuantitiesCounted(levels, ps, heap) ==
    [k \in 1 .. Len(ps) |-> Len(levels[ps[k]])]

\* book_summary, line 102 / 103: the total quantity at each listed price
LevelQuantities(levels, ps, heap) ==
    [k \in 1 .. Len(ps) |->
        SumSeq([n \in 1 .. Len(levels[ps[k]]) |-> heap[levels[ps[k]][n]].quantity])]

----------------------------------------------------------------------------
\* The state after OrderBook.__init__

NoLevels == [p \in {} |-> <<>>]
\* The locals of process_match when no call is running
Idle(inc, ps, k, lvl, n) ==
    inc = 0 /\ ps = <<>> /\ k = 0 /\ lvl = <<>> /\ n = 0

Init ==
    /\ bids = NoLevels
    /\ offers = NoLevels
    /\ orders = <<>>
    /\ trades = <<>>
    /\ order_id = 0
    /\ bid_prices = <<>>
    /\ bid_quantity = <<>>
    /\ offer_prices = <<>>
    /\ offer_quantity = <<>>
    /\ pc = "idle"
    /\ Idle(incoming, prices, i, orders_at_level, j)
    /\ pre = [bids |-> NoLevels, offers |-> NoLevels, orders |-> <<>>, trades |-> <<>>]
    /\ submitted = <<>>
    /\ given = 0
    /\ summarised = FALSE

----------------------------------------------------------------------------
\* process_order(o), lines 52-63, up to the call of process_match (lines 67-68)

ProcessOrder(o) ==
    /\ pc = "idle"
    /\ Len(orders) < MaxOrders
    /\ LET id == new_order_id(order_id)
           ref == Len(orders) + 1
       IN  /\ order_id' = id
           /\ orders' = Append(orders, [type |-> o.type, price |-> o.price,
                                        quantity |-> o.quantity, order_id |-> id])
           /\ pre' = [bids |-> bids, offers |-> offers, orders |-> orders,
                      trades |-> trades]
           /\ submitted' = Append(submitted, o.quantity)
           /\ given' = o.order_id
           /\ summarised' = FALSE
           /\ \/ /\ o.type = "BUY"
                 /\ BuyMatches(o.price, offers)
                 /\ pc' = "level"
                 /\ incoming' = ref
                 /\ prices' = SortedPrices(offers, o.type)
                 /\ i' = 1
                 /\ UNCHANGED <<bids, offers, orders_at_level, j>>
              \/ /\ o.type = "BUY"
                 /\ ~BuyMatches(o.price, offers)
                 /\ bids' = AppendOrder(bids, o.price, ref)
                 /\ UNCHANGED <<offers, pc, locals>>
              \/ /\ o.type = "SELL"
                 /\ SellMatches(o.price, bids)
                 /\ pc' = "level"
                 /\ incoming' = ref
                 /\ prices' = SortedPrices(bids, o.type)
                 /\ i' = 1
                 /\ UNCHANGED <<bids, offers, orders_at_level, j>>
              \/ /\ o.type = "SELL"
                 /\ ~SellMatches(o.price, bids)
                 /\ offers' = AppendOrder(offers, o.price, ref)
                 /\ UNCHANGED <<bids, pc, locals>>
    /\ UNCHANGED <<trades, summary>>

\* process_match, lines 76-79: the head of the loop over the price levels
LevelStep ==
    /\ pc = "level"
    /\ LET inc == orders[incoming]
           levels == IF inc.type = "SELL" THEN bids ELSE offers
       IN  \/ /\ i <= Len(prices)
              /\ ~LevelLoopBreaks(inc, prices[i])
              /\ orders_at_level' = levels[prices[i]]
              /\ j' = 1
              /\ pc' = "order"
              /\ UNCHANGED <<incoming, prices, i>>
           \/ /\ IF i <= Len(prices) THEN LevelLoopBreaks(inc, prices[i]) ELSE TRUE
              /\ pc' = "remainder"
              /\ UNCHANGED locals
    /\ UNCHANGED <<book, summary, history>>

\* process_match, lines 80-86: one iteration of the loop over the level's orders
OrderStep ==
    /\ pc = "order"
    /\ LET inc == orders[incoming]
       IN  \/ /\ j <= Len(orders_at_level)
              /\ ~OrderLoopBreaks(inc)
              /\ LET ref == orders_at_level[j]
                     trade == execute_match(inc, orders[ref])
                 IN  /\ orders' = [orders EXCEPT
                            ![incoming].quantity = Reduced(@, trade.quantity),
                            ![ref].quantity = Reduced(@, trade.quantity)]
                     /\ trades' = Append(trades, trade)
              /\ j' = j + 1
              /\ UNCHANGED <<pc, incoming, prices, i, orders_at_level>>
           \/ /\ (j > Len(orders_at_level) \/ OrderLoopBreaks(inc))
              /\ pc' = "compact"
              /\ UNCHANGED <<orders, trades, locals>>
    /\ UNCHANGED <<bids, offers, order_id, summary, history>>

\* process_match, lines 87-89: the level is compacted, and popped when empty
CompactStep ==
    /\ pc = "compact"
    /\ \/ /\ orders[incoming].type = "SELL"
          /\ bids' = Compacted(bids, prices[i], orders_at_level, orders)
          /\ UNCHANGED offers
       \/ /\ orders[incoming].type = "BUY"
          /\ offers' = Compacted(offers, prices[i], orders_at_level, orders)
          /\ UNCHANGED bids
    /\ i' = i + 1
    /\ pc' = "level"
    /\ UNCHANGED <<orders, trades, order_id, summary, incoming, prices,
                   orders_at_level, j, history>>

\* Mutant of RemainderStep: what is left of the incoming order is not inserted
RemainderStepDropped ==
    /\ pc = "remainder"
    /\ pc' = "idle"
    /\ Idle(incoming', prices', i', orders_at_level', j')
    /\ UNCHANGED <<book, summary, history>>

\* process_match, lines 91-93: what is left of the incoming order rests; the call returns
RemainderStep ==
    /\ pc = "remainder"
    /\ LET inc == orders[incoming]
       IN  \/ /\ inc.quantity > 0
              /\ inc.type = "BUY"
              /\ bids' = AppendOrder(bids, inc.price, incoming)
              /\ UNCHANGED offers
           \/ /\ inc.quantity > 0
              /\ inc.type = "SELL"
              /\ offers' = AppendOrder(offers, inc.price, incoming)
              /\ UNCHANGED bids
           \/ /\ ~(inc.quantity > 0)
              /\ UNCHANGED <<bids, offers>>
    /\ pc' = "idle"
    /\ Idle(incoming', prices', i', orders_at_level', j')
    /\ UNCHANGED <<orders, trades, order_id, summary, history>>

\* Mutant of BookSummary: the four lists are extended instead of assigned
BookSummaryExtends ==
    /\ pc = "idle"
    /\ bid_prices' = bid_prices \o Sorted(DOMAIN bids, TRUE)
    /\ offer_prices' = offer_prices \o Sorted(DOMAIN offers, FALSE)
    /\ bid_quantity' =
          bid_quantity \o LevelQuantities(bids, Sorted(DOMAIN bids, TRUE), orders)
    /\ offer_quantity' =
          offer_quantity \o LevelQuantities(offers, Sorted(DOMAIN offers, FALSE), orders)
    /\ summarised' = TRUE
    /\ UNCHANGED <<book, pc, locals, pre, submitted, given>>

\* book_summary, lines 100-103
BookSummary ==
    /\ pc = "idle"
    /\ bid_prices' = Sorted(DOMAIN bids, TRUE)
    /\ offer_prices' = Sorted(DOMAIN offers, FALSE)
    /\ bid_quantity' = LevelQuantities(bids, bid_prices', orders)
    /\ offer_quantity' = LevelQuantities(offers, offer_prices', orders)
    /\ summarised' = TRUE
    /\ UNCHANGED <<book, pc, locals, pre, submitted, given>>

MatchSteps == LevelStep \/ OrderStep \/ CompactStep \/ RemainderStep

\* Orders as the code accepts them: nothing is validated.
Next ==
    \/ \E o \in NewOrders(AnyPrices, AnyQuantities) : ProcessOrder(o)
    \/ MatchSteps
    \/ BookSummary

Spec == Init /\ [][Next]_vars

\* Orders as the spec requires of the submitter: positive price and quantity.
NextValid ==
    \/ \E o \in NewOrders(ValidPrices, ValidQuantities) : ProcessOrder(o)
    \/ MatchSteps
    \/ BookSummary

SpecValid == Init /\ [][NextValid]_vars

----------------------------------------------------------------------------
\* Vocabulary of the properties

Range(s) == {s[k] : k \in 1 .. Len(s)}

\* The references held by a side index
InSide(levels) == UNION {Range(levels[p]) : p \in DOMAIN levels}

\* How many times a side index holds a reference
Occurrences(levels, r) ==
    SumSeq([k \in 1 .. Len(SortedAsc(DOMAIN levels)) |->
        Cardinality({n \in 1 .. Len(levels[SortedAsc(DOMAIN levels)[k]]) :
                        levels[SortedAsc(DOMAIN levels)[k]][n] = r})])

\* A side index as a caller can observe it: per price, the orders and what remains of each
SideView(levels, heap) ==
    [p \in DOMAIN levels |->
        [k \in 1 .. Len(levels[p]) |-> <<levels[p][k], heap[levels[p][k]].quantity>>]]

\* No call is running, and at least one has completed
Completed == pc = "idle" /\ Len(orders) > 0

\* The order of the last call, and what it was submitted as
Last == Len(orders)
LastIsBuy == orders[Last].type = "BUY"

\* The sides as the last call saw them: its order's own side and the opposite one
PreOwn == IF LastIsBuy THEN pre.bids ELSE pre.offers
PreOpposite == IF LastIsBuy THEN pre.offers ELSE pre.bids
Own == IF LastIsBuy THEN bids ELSE offers
Opposite == IF LastIsBuy THEN offers ELSE bids

\* Marketable, in the words of the spec (4.1), for the order of the last call
Marketable ==
    IF LastIsBuy
    THEN pre.offers # NoLevels /\ \E p \in DOMAIN pre.offers : orders[Last].price >= p
    ELSE pre.bids # NoLevels /\ \E p \in DOMAIN pre.bids : orders[Last].price <= p

\* The trades the last call put on the queue
NewTrades == SubSeq(trades, Len(pre.trades) + 1, Len(trades))

\* An order that rested when the last call began is now filled and out of the book
FilledAndGone(r) ==
    orders[r].quantity = 0 /\ r \notin InSide(bids) \cup InSide(offers)

\* An order that rested when the last call began was reduced by the call
ReducedByCall(r) == orders[r].quantity < pre.orders[r].quantity

\* The quantity of all trades that name the order with this id
Traded(id) ==
    SumSeq([k \in 1 .. Len(trades) |->
        (IF trades[k].incoming_order_id = id THEN trades[k].quantity ELSE 0)
        + (IF trades[k].book_order_id = id THEN trades[k].quantity ELSE 0)])

----------------------------------------------------------------------------
\* C1. Price-time priority: when a call has ended, a resting order was reduced by it
\* only if every order that rested on the same side at a strictly better price, and
\* every order at its own price with a smaller order_id, is filled to 0 and out of
\* the book.
PriceTimePriority ==
    pc = "idle" =>
        /\ \A p \in DOMAIN pre.bids : \A r \in Range(pre.bids[p]) :
              ReducedByCall(r) =>
                 /\ \A q \in DOMAIN pre.bids : q > p =>
                        \A s \in Range(pre.bids[q]) : FilledAndGone(s)
                 /\ \A s \in Range(pre.bids[p]) :
                        orders[s].order_id < orders[r].order_id => FilledAndGone(s)
        /\ \A p \in DOMAIN pre.offers : \A r \in Range(pre.offers[p]) :
              ReducedByCall(r) =>
                 /\ \A q \in DOMAIN pre.offers : q < p =>
                        \A s \in Range(pre.offers[q]) : FilledAndGone(s)
                 /\ \A s \in Range(pre.offers[p]) :
                        orders[s].order_id < orders[r].order_id => FilledAndGone(s)

\* C1 witness: a call reduced a resting bid after filling an older bid at the same price.
PriceTimePriorityWitness ==
    /\ pc = "idle"
    /\ \E p \in DOMAIN pre.bids : \E r, s \in Range(pre.bids[p]) :
          /\ orders[s].order_id < orders[r].order_id
          /\ ReducedByCall(r)
          /\ ReducedByCall(s)
          /\ orders[r].quantity > 0

\* C2. No crossed book: whenever no call is running and both sides hold orders, the
\* highest bid is strictly below the lowest offer.
NoCrossedBook ==
    pc = "idle" =>
        (bids # NoLevels /\ offers # NoLevels =>
            \A b \in DOMAIN bids : \A a \in DOMAIN offers : b < a)

\* C2 witness: both sides hold orders after a call that traded and left a remainder.
NoCrossedBookWitness ==
    /\ Completed
    /\ bids # NoLevels /\ offers # NoLevels
    /\ Len(NewTrades) > 0
    /\ Last \in InSide(bids) \cup InSide(offers)

\* C3. Quantity conservation: a step that trades puts one trade on the queue, for the
\* minimum of what remained of the incoming and of the resting order, and takes exactly
\* that quantity from both; and always, what an order was submitted with is what remains
\* of it plus the quantities of all trades that name it.
TradeStepConserves ==
    trades' # trades =>
        LET inc == incoming
            ref == orders_at_level[j]
            t == trades'[Len(trades')]
            least == IF orders[inc].quantity <= orders[ref].quantity
                     THEN orders[inc].quantity ELSE orders[ref].quantity
        IN  /\ trades' = Append(trades, t)
            /\ t.quantity = least
            /\ orders'[inc].quantity = orders[inc].quantity - t.quantity
            /\ orders'[ref].quantity = orders[ref].quantity - t.quantity
            /\ \A r \in 1 .. Len(orders) : r \notin {inc, ref} => orders'[r] = orders[r]

SubmittedIsRemainingPlusTraded ==
    \A r \in 1 .. Len(orders) :
        submitted[r] = orders[r].quantity + Traded(orders[r].order_id)

QuantityConservation ==
    [][TradeStepConserves]_vars /\ []SubmittedIsRemainingPlusTraded

\* C3 witness: an order is partly filled, and trades name it.
QuantityConservationWitness ==
    \E r \in 1 .. Len(orders) :
        /\ 0 < orders[r].quantity
        /\ orders[r].quantity < submitted[r]
        /\ Traded(orders[r].order_id) > 0

\* C4. Level hygiene: no key of bids or offers ever maps to an empty list, also after
\* book_summary; a key the last call added holds just that call's order; a key the last
\* call removed held only orders that are now filled; and a level whose orders the call
\* all filled is gone when the call ends.
NoEmptyLevel ==
    /\ \A p \in DOMAIN bids : Len(bids[p]) > 0
    /\ \A p \in DOMAIN offers : Len(offers[p]) > 0

LevelsComeAndGo(levels0, levels) ==
    /\ \A p \in DOMAIN levels \ DOMAIN levels0 : levels[p] = <<Last>>
    /\ \A p \in DOMAIN levels0 \ DOMAIN levels :
          /\ \A r \in Range(levels0[p]) : orders[r].quantity = 0
          /\ \E r \in Range(levels0[p]) : ReducedByCall(r)
    /\ \A p \in DOMAIN levels0 :
          (\A r \in Range(levels0[p]) : orders[r].quantity = 0) => p \notin DOMAIN levels

LevelHygiene ==
    /\ NoEmptyLevel
    /\ pc = "idle" =>
          /\ LevelsComeAndGo(pre.bids, bids)
          /\ LevelsComeAndGo(pre.offers, offers)

\* C4 witness: the last call filled the last order of a level, which is gone, and
\* book_summary ran after it.
LevelHygieneWitness ==
    /\ Completed
    /\ \E p \in DOMAIN pre.bids : p \notin DOMAIN bids
    /\ offers # NoLevels
    /\ offer_prices = Sorted(DOMAIN offers, FALSE)

\* C5. Routing: the last call put at least one trade on the queue iff its order was
\* marketable (opposite side non-empty and price at or beyond its best price); an order
\* that was not marketable put no trade, left every other order and the opposite side as
\* they were, and is the last of the level of its price on its own side.
Routing ==
    Completed =>
        /\ Len(trades) > Len(pre.trades) <=> Marketable
        /\ ~Marketable =>
              /\ trades = pre.trades
              /\ Opposite = PreOpposite
              /\ SubSeq(orders, 1, Len(pre.orders)) = pre.orders
              /\ orders[Last].quantity = submitted[Last]
              /\ DOMAIN Own = DOMAIN PreOwn \cup {orders[Last].price}
              /\ \A p \in DOMAIN Own :
                    Own[p] = IF p # orders[Last].price THEN PreOwn[p]
                             ELSE IF p \in DOMAIN PreOwn THEN Append(PreOwn[p], Last)
                             ELSE <<Last>>
        /\ PreOpposite = NoLevels => Last \in InSide(Own)

\* C5 witness: an order that is not marketable although the opposite side holds orders
\* rests behind an older order at its price.
RoutingWitness ==
    /\ Completed
    /\ ~Marketable
    /\ PreOpposite # NoLevels
    /\ Len(Own[orders[Last].price]) > 1

\* C6. Execution price: a step that trades puts on the queue a trade with the incoming
\* order's side and order_id and the resting order's price and order_id; so every
\* trade on the queue is at the price of the order its book_order_id names, never above
\* the limit of a BUY aggressor and never below the limit of a SELL aggressor.
TradeStepFields ==
    trades' # trades =>
        LET t == trades'[Len(trades')]
            bk == orders[orders_at_level[j]]
        IN  /\ t.price = bk.price
            /\ t.type = orders[incoming].type
            /\ t.incoming_order_id = orders[incoming].order_id
            /\ t.book_order_id = bk.order_id

TradesAtRestingPrice ==
    \A k \in 1 .. Len(trades) :
        /\ \E r \in 1 .. Len(orders) :
              /\ orders[r].order_id = trades[k].book_order_id
              /\ orders[r].price = trades[k].price
        /\ \E r \in 1 .. Len(orders) :
              /\ orders[r].order_id = trades[k].incoming_order_id
              /\ orders[r].type = trades[k].type
              /\ trades[k].type = "BUY" => trades[k].price <= orders[r].price
              /\ trades[k].type = "SELL" => trades[k].price >= orders[r].price

ExecutionPrice == [][TradeStepFields]_vars /\ []TradesAtRestingPrice

\* C6 witness: a trade on the queue is at a price other than its aggressor's limit.
ExecutionPriceWitness ==
    \E k \in 1 .. Len(trades) : \E r \in 1 .. Len(orders) :
        /\ orders[r].order_id = trades[k].incoming_order_id
        /\ orders[r].price # trades[k].price

\* C7. Identity assignment: the k-th call gives its order order_id k, whatever the
\* caller had pre-set; ids start at 1, grow by one per call, are unique, and every id a
\* trade names is one the book assigned.
IdentityAssignment ==
    /\ order_id = Len(orders)
    /\ \A k \in 1 .. Len(orders) : orders[k].order_id = k
    /\ \A a, b \in 1 .. Len(orders) : a # b => orders[a].order_id # orders[b].order_id
    /\ \A k \in 1 .. Len(trades) :
          /\ trades[k].incoming_order_id \in 1 .. order_id
          /\ trades[k].book_order_id \in 1 .. order_id
          /\ trades[k].incoming_order_id # trades[k].book_order_id

\* C7 witness: the second call's order had the first order's id pre-set, and got its own.
IdentityAssignmentWitness ==
    /\ Len(orders) = 2
    /\ given = orders[1].order_id
    /\ orders[2].order_id # given

\* C8, as claimed: every call leaves bids or offers as it was.
OneSideUnchanged ==
    Completed =>
        \/ SideView(bids, orders) = SideView(pre.bids, pre.orders)
        \/ SideView(offers, orders) = SideView(pre.offers, pre.orders)

\* C8, amended: a call changes both bids and offers exactly when its order was
\* marketable and is left with a remainder, which the call inserts on the order's own
\* side after the fills on the opposite side; every other call leaves one side as it was.
BothSidesChangeOnlyByRemainder ==
    Completed =>
        (/\ SideView(bids, orders) # SideView(pre.bids, pre.orders)
         /\ SideView(offers, orders) # SideView(pre.offers, pre.orders))
        <=> (Marketable /\ orders[Last].quantity > 0)

\* C8 witness: a marketable order was partly filled and its remainder rests.
BothSidesChangeWitness ==
    /\ Completed
    /\ Marketable
    /\ orders[Last].quantity > 0
    /\ Last \in InSide(Own)
    /\ SideView(Opposite, orders) # SideView(PreOpposite, pre.orders)

\* C9. Invalid input is rejected: a call whose order has price <= 0 or quantity <= 0
\* leaves bids, offers and the trades queue as they were: the order neither rests nor
\* trades.  (process_order holds no raise statement and no test of price or quantity,
\* so no call ends in an error; what the formula states is the claim's effect on the book.)
InvalidInputRejected ==
    (Completed /\ (orders[Last].price <= 0 \/ submitted[Last] <= 0)) =>
        /\ bids = pre.bids
        /\ offers = pre.offers
        /\ trades = pre.trades

\* C10. No silent drop: between calls, every processed order with quantity left rests
\* exactly once, on its own side and in the level of its own price; every processed
\* order that is not in the book has no quantity left; and no step removes or reorders
\* a trade of the queue.
RestsOnceInItsLevel ==
    pc = "idle" =>
        \A r \in 1 .. Len(orders) :
            /\ orders[r].quantity > 0 =>
                  /\ Occurrences(bids, r) + Occurrences(offers, r) = 1
                  /\ LET own == IF orders[r].type = "BUY" THEN bids ELSE offers
                     IN  /\ orders[r].price \in DOMAIN own
                         /\ r \in Range(own[orders[r].price])
            /\ r \notin InSide(bids) \cup InSide(offers) => orders[r].quantity = 0

TradesOnlyAppended ==
    /\ Len(trades') >= Len(trades)
    /\ SubSeq(trades', 1, Len(trades)) = trades

NoSilentDrop == []RestsOnceInItsLevel /\ [][TradesOnlyAppended]_vars

\* C10 witness: a partly filled aggressor rests, and the order it filled is out of the book.
NoSilentDropWitness ==
    /\ Completed
    /\ 0 < orders[Last].quantity
    /\ orders[Last].quantity < submitted[Last]
    /\ Last \in InSide(Own)
    /\ \E r \in 1 .. Len(orders) :
          r \notin InSide(bids) \cup InSide(offers) /\ submitted[r] > 0

\* C11. book_summary is idempotent: a book_summary call that follows a book_summary
\* call, with no process_order call between them, leaves the four summary lists as the
\* first call set them.
SecondSummarySame == (summarised /\ summarised') => summary' = summary

SummaryIdempotent == [][SecondSummarySame]_vars

\* C11 witness: book_summary has just run on a book with orders on both sides, and can
\* run again.
SummaryIdempotentWitness ==
    /\ summarised
    /\ pc = "idle"
    /\ Len(bid_prices) > 0
    /\ Len(offer_prices) > 0

\* C12. book_summary is a pure read projection: the step leaves bids, offers, the orders,
\* the trades queue and the order_id counter unchanged, and after it the lists hold
\* every price level of each side once, bids in strictly descending and offers in
\* strictly ascending price, each with the sum of what remains of the orders at that
\* price, which is > 0.
SummaryStepReadsOnly == summarised' => UNCHANGED book

SideProjected(levels, ps, qs, descending) ==
    /\ Range(ps) = DOMAIN levels
    /\ Len(qs) = Len(ps)
    /\ \A k \in 1 .. Len(ps) - 1 :
          IF descending THEN ps[k] > ps[k + 1] ELSE ps[k] < ps[k + 1]
    /\ \A k \in 1 .. Len(ps) :
          /\ qs[k] = SumSeq([n \in 1 .. Len(levels[ps[k]]) |->
                                orders[levels[ps[k]][n]].quantity])
          /\ qs[k] > 0

SummaryProjectsBook ==
    summarised =>
        /\ SideProjected(bids, bid_prices, bid_quantity, TRUE)
        /\ SideProjected(offers, offer_prices, offer_quantity, FALSE)

SummaryIsProjection == [][SummaryStepReadsOnly]_vars /\ []SummaryProjectsBook

\* C12 witness: book_summary has listed an offer level and a bid level of two orders.
SummaryIsProjectionWitness ==
    /\ summarised
    /\ Len(bid_prices) = 1
    /\ Len(offer_prices) = 1
    /\ \E p \in DOMAIN bids : Len(bids[p]) = 2 /\ bid_quantity[1] > MaxQty

\* C13. No filled order rests: between calls, every order held by a level of bids or
\* offers has quantity > 0.
NoFilledOrderRests ==
    pc = "idle" =>
        \A r \in InSide(bids) \cup InSide(offers) : orders[r].quantity > 0

\* C13 witness: the last call filled one order of a level, which is out of the book,
\* and the level's other order still rests.
NoFilledOrderRestsWitness ==
    /\ Completed
    /\ \E p \in DOMAIN PreOpposite \cap DOMAIN Opposite :
          /\ Len(Opposite[p]) < Len(PreOpposite[p])
          /\ orders[Last].quantity = 0

\* C14. Remaining quantity is monotone: no step increases an order's quantity or makes
\* it negative; a quantity changes only in the loop of process_match over a level's
\* orders; and in a step that trades, the differences handed to max(0, ...) are
\* already >= 0.
QuantityStep ==
    /\ \A r \in 1 .. Len(orders) :
          /\ orders'[r].quantity <= orders[r].quantity
          /\ orders'[r].quantity >= 0
          /\ orders'[r].quantity # orders[r].quantity => pc = "order" /\ pc' = "order"
    /\ trades' # trades =>
          LET t == trades'[Len(trades')]
          IN  /\ orders[incoming].quantity - t.quantity >= 0
              /\ orders[orders_at_level[j]].quantity - t.quantity >= 0
              /\ orders'[incoming].quantity = orders[incoming].quantity - t.quantity
              /\ orders'[orders_at_level[j]].quantity =
                    orders[orders_at_level[j]].quantity - t.quantity

QuantitiesNotNegative == \A r \in 1 .. Len(orders) : orders[r].quantity >= 0

RemainingMonotone == [][QuantityStep]_vars /\ []QuantitiesNotNegative

\* C14 witness: inside process_match, a trade has reduced the incoming order, which
\* still has quantity left.
RemainingMonotoneWitness ==
    /\ pc = "order"
    /\ Len(trades) > Len(pre.trades)
    /\ 0 < orders[incoming].quantity
    /\ orders[incoming].quantity < submitted[incoming]

\* The price crosses the limit of the last call's order
Crosses(p) ==
    IF LastIsBuy THEN p <= orders[Last].price ELSE p >= orders[Last].price

\* The price is worse for the last call's order than price q
WorseThan(p, q) == IF LastIsBuy THEN p > q ELSE p < q

\* The opposite-side level at the price is as it was when the last call began
LevelUntouched(p) ==
    /\ p \in DOMAIN Opposite
    /\ Opposite[p] = PreOpposite[p]
    /\ \A r \in Range(PreOpposite[p]) : orders[r] = pre.orders[r]

\* C15. Hard price boundary: a call leaves untouched (same orders in the same order with
\* the same quantities) every opposite-side level whose price does not cross its
\* order's limit, and every crossing level worse than the level of its last trade when
\* that trade left the order no quantity.
HardPriceBoundary ==
    Completed =>
        \A p \in DOMAIN PreOpposite :
            /\ ~Crosses(p) => LevelUntouched(p)
            /\ (/\ Crosses(p)
                /\ orders[Last].quantity = 0
                /\ Len(NewTrades) > 0
                /\ WorseThan(p, NewTrades[Len(NewTrades)].price)) => LevelUntouched(p)

\* C15 witness: the last call's order was filled at the best level, and a worse level
\* that also crossed its limit is untouched.
HardPriceBoundaryWitness ==
    /\ Completed
    /\ orders[Last].quantity = 0
    /\ Len(NewTrades) > 0
    /\ \E p \in DOMAIN PreOpposite :
          /\ Crosses(p)
          /\ WorseThan(p, NewTrades[Len(NewTrades)].price)
          /\ LevelUntouched(p)

\* C16. Aggressor remainder: when the call of a marketable order ends with quantity
\* left, every opposite-side level that crossed its limit is gone, and the order rests
\* alone in the level of its limit price on its own side, which is the best price of
\* that side.
AggressorRemainder ==
    (Completed /\ Marketable /\ orders[Last].quantity > 0) =>
        /\ \A p \in DOMAIN PreOpposite : Crosses(p) => p \notin DOMAIN Opposite
        /\ \A p \in DOMAIN Opposite : ~Crosses(p)
        /\ orders[Last].price \in DOMAIN Own
        /\ Own[orders[Last].price] = <<Last>>
        /\ \A p \in DOMAIN Own :
              IF LastIsBuy THEN p <= orders[Last].price ELSE p >= orders[Last].price

\* C16 witness: a marketable order traded at a price better than its limit and what is
\* left of it is the new best price of its side.
AggressorRemainderWitness ==
    /\ Completed
    /\ Marketable
    /\ orders[Last].quantity > 0
    /\ Len(NewTrades) > 0
    /\ NewTrades[1].price # orders[Last].price
    /\ Own[orders[Last].price] = <<Last>>

\* C17. Trades are emitted in execution order: the trades of a call follow all earlier
\* trades, their prices never improve for the aggressor (non-decreasing for a BUY,
\* non-increasing for a SELL), trades of the call at one price have strictly increasing
\* book_order_id, and a call of an order that is not marketable puts no trade.
TradesInExecutionOrder ==
    Len(orders) > 0 =>
        /\ Len(trades) >= Len(pre.trades)
        /\ SubSeq(trades, 1, Len(pre.trades)) = pre.trades
        /\ \A k \in 1 .. Len(NewTrades) - 1 :
              /\ IF LastIsBuy THEN NewTrades[k].price <= NewTrades[k + 1].price
                              ELSE NewTrades[k].price >= NewTrades[k + 1].price
              /\ NewTrades[k].price = NewTrades[k + 1].price =>
                    NewTrades[k].book_order_id < NewTrades[k + 1].book_order_id
        /\ \A k \in 1 .. Len(NewTrades) :
              NewTrades[k].incoming_order_id = orders[Last].order_id
        /\ ~Marketable => NewTrades = <<>>

\* C17 witness: one call traded at two prices, the better one first.
TradesInExecutionOrderWitness ==
    /\ Completed
    /\ Len(NewTrades) = 2
    /\ WorseThan(NewTrades[2].price, NewTrades[1].price)

\* C18. Every trade on the queue has quantity > 0, and no two trades name the same pair
\* of incoming and resting order.
TradesPositiveAndUnique ==
    /\ \A k \in 1 .. Len(trades) : trades[k].quantity > 0
    /\ \A k, l \in 1 .. Len(trades) :
          (/\ trades[k].incoming_order_id = trades[l].incoming_order_id
           /\ trades[k].book_order_id = trades[l].book_order_id) => k = l

\* C18 witness: one incoming order traded with two resting orders of one level.
TradesPositiveAndUniqueWitness ==
    \E k, l \in 1 .. Len(trades) :
        /\ k # l
        /\ trades[k].incoming_order_id = trades[l].incoming_order_id
        /\ trades[k].price = trades[l].price
        /\ trades[k].book_order_id # trades[l].book_order_id

\* C19. FIFO levels: in every state, the orders of each level of bids and of offers are
\* listed in strictly increasing order_id.
LevelInArrivalOrder(levels) ==
    \A p \in DOMAIN levels : \A k \in 1 .. Len(levels[p]) - 1 :
        orders[levels[p][k]].order_id < orders[levels[p][k + 1]].order_id

FifoLevels == LevelInArrivalOrder(bids) /\ LevelInArrivalOrder(offers)

\* C19 witness: after a call that traded, a level holds a partly filled order ahead of
\* a younger one.
FifoLevelsWitness ==
    /\ Completed
    /\ Len(NewTrades) > 0
    /\ \E p \in DOMAIN Opposite :
          /\ Len(Opposite[p]) = 2
          /\ orders[Opposite[p][1]].quantity < submitted[Opposite[p][1]]

\* C20. Trade well-formedness: in every trade on the queue the resting order's id is
\* smaller than the incoming order's, both are ids the book assigned, the order named
\* by book_order_id is of the side opposite to the trade's type, and the order named by
\* incoming_order_id is of the trade's type.
TradesWellFormed ==
    \A k \in 1 .. Len(trades) :
        /\ trades[k].book_order_id < trades[k].incoming_order_id
        /\ trades[k].book_order_id \in 1 .. order_id
        /\ trades[k].incoming_order_id \in 1 .. order_id
        /\ \A r \in 1 .. Len(orders) :
              /\ orders[r].order_id = trades[k].book_order_id =>
                    orders[r].type # trades[k].type
              /\ orders[r].order_id = trades[k].incoming_order_id =>
                    orders[r].type = trades[k].type
        /\ \E r \in 1 .. Len(orders) : orders[r].order_id = trades[k].book_order_id
        /\ \E r \in 1 .. Len(orders) : orders[r].order_id = trades[k].incoming_order_id

\* C20 witness: a BUY order and a SELL order each were the aggressor of a trade.
TradesWellFormedWitness ==
    \E k, l \in 1 .. Len(trades) :
        trades[k].type = "BUY" /\ trades[l].type = "SELL"
====
